---- MODULE Spec2Model ----
(***************************************************************************)
(* Model of src/app.py: the coffee-shop sales dashboard.                   *)
(*                                                                         *)
(* The module-level code loads the workbook into the global DataFrame df   *)
(* and derives CA, heure, jour_semaine and mois; the Dash callback         *)
(* update_dashboard(store_selection, mois_selection) filters df and        *)
(* computes the KPIs, the monthly and weekday series, the heatmap pivot,   *)
(* the top products and the market-basket rules.                           *)
(*                                                                         *)
(* Conventions.                                                            *)
(*  - A Python str whose ORDER matters (product_detail, mois) is the       *)
(*    sequence of its code points; Python compares str lexicographically   *)
(*    by code point (StrLess).                                             *)
(*  - The workbook writes unit_price as a decimal with two places, given  *)
(*    here as a number of cents; the cell of df is the float64 nearest to  *)
(*    it.                                                                  *)
(*  - CA, the sums, support, confidence, lift and ticket_moyen are float64 *)
(*    values computed with the operations and in the order of the          *)
(*    libraries: numpy's pairwise sum for Series.sum, pandas' Kahan        *)
(*    summation for groupby sums, one rounded division for each ratio.     *)
(*  - A float cell of a Series/DataFrame is Float(v) or NaN.               *)
(*  - The state holds the frame of the latest call of update_dashboard:    *)
(*    its arguments and its local variables, and pc says whether the call  *)
(*    returned or raised.                                                  *)
(***************************************************************************)
EXTENDS Integers, Sequences, FiniteSets, TLC

VARIABLES df, store_selection, mois_selection, pc,
          df_filtered, total_ca, nb_transac, ticket_moyen, total_qty,
          ca_mois, ca_jour, pivot, top, frequent, rules, table

vars == <<df, store_selection, mois_selection, pc,
          df_filtered, total_ca, nb_transac, ticket_moyen, total_qty,
          ca_mois, ca_jour, pivot, top, frequent, rules, table>>

(***************************************************************************)
(* Bounds of the model.                                                    *)
(***************************************************************************)
\* Longest free part of the workbook (rows drawn from RawPool, any order).
MaxLines == 3
\* Number of single-line transactions of the same product in a "repeat" tail.
BulkRepeat == 49
\* Number of single-line transactions of distinct products in a "distinct" tail
\* (more than the 10 products that Top keeps).
BulkDistinct == 11

(***************************************************************************)
(* Generic helpers.                                                        *)
(***************************************************************************)
Range(s) == {s[i] : i \in 1..Len(s)}

\* The sequence s with its elements computed once: a sequence written as a
\* function [i \in 1..n |-> e] is otherwise recomputed at each s[i].
List(s) == s \o <<>>

\* The sum of the integers s[lo..hi], by halves.
RECURSIVE SumRange(_, _, _)
SumRange(s, lo, hi) ==
    IF lo > hi THEN 0
    ELSE IF lo = hi THEN s[lo]
    ELSE LET mid == (lo + hi) \div 2
         IN  SumRange(s, lo, mid) + SumRange(s, mid + 1, hi)

SumSeq(s) == SumRange(s, 1, Len(s))

\* Python's order on str: lexicographic by code point, a proper prefix first.
RECURSIVE StrLess(_, _)
StrLess(a, b) ==
    IF a = <<>> THEN b # <<>>
    ELSE IF b = <<>> THEN FALSE
    ELSE IF Head(a) # Head(b) THEN Head(a) < Head(b)
    ELSE StrLess(Tail(a), Tail(b))

\* sorted(S) for a finite set S of str: the element at position i is the
\* one with i - 1 elements of S below it.
SortStrs(S) ==
    LET ranked == {<<Cardinality({y \in S : StrLess(y, x)}), x>> : x \in S}
    IN  List([i \in 1..Cardinality(S) |-> (CHOOSE p \in ranked : p[1] = i - 1)[2]])

\* sorted(S) for a finite set S of integers.
SortInts(S) ==
    LET ranked == {<<Cardinality({y \in S : y < x}), x>> : x \in S}
    IN  List([i \in 1..Cardinality(S) |-> (CHOOSE p \in ranked : p[1] = i - 1)[2]])

\* The distinct values of s in order of first appearance (Series.unique()).
Unique(s) ==
    LET firsts == SelectSeq(List([i \in 1..Len(s) |-> <<i, s[i]>>]),
                            LAMBDA p : \A j \in 1..(p[1] - 1) : s[j] # p[2])
    IN  List([i \in 1..Len(firsts) |-> firsts[i][2]])

(***************************************************************************)
(* float64 arithmetic, as the CPU does it for numpy, pandas and mlxtend.   *)
(***************************************************************************)
\* The powers of two 2^0 .. 2^30.
Pow2Tab ==
    <<1, 2, 4, 8, 16, 32, 64, 128, 256, 512, 1024, 2048, 4096, 8192, 16384,
      32768, 65536, 131072, 262144, 524288, 1048576, 2097152, 4194304,
      8388608, 16777216, 33554432, 67108864, 134217728, 268435456,
      536870912, 1073741824>>
Pow2(k) == Pow2Tab[k + 1]

\* The number of bits of x, 0 <= x < 2^30.
BitLen4(x) ==
    IF x >= 4 THEN (IF x >= 8 THEN 4 ELSE 3)
    ELSE IF x >= 2 THEN 2 ELSE IF x = 1 THEN 1 ELSE 0
BitLen8(x) ==
    (IF x >= 16 THEN 4 ELSE 0) + BitLen4(IF x >= 16 THEN x \div 16 ELSE x)
BitLen15(x) ==
    (IF x >= 128 THEN 7 ELSE 0) + BitLen8(IF x >= 128 THEN x \div 128 ELSE x)
BitLen(x) ==
    (IF x >= 32768 THEN 15 ELSE 0) + BitLen15(IF x >= 32768 THEN x \div 32768 ELSE x)

\* A natural number below 2^60 is a pair <<h, l>> of value h * 2^30 + l with
\* l < 2^30: the integers of the model checker have 32 bits.
UZero == <<0, 0>>
UOne == <<0, 1>>
ULen(u) == (IF u[1] > 0 THEN 30 ELSE 0) + BitLen(IF u[1] > 0 THEN u[1] ELSE u[2])
ULess(u, v) == u[1] < v[1] \/ (u[1] = v[1] /\ u[2] < v[2])
UAdd(u, v) ==
    LET lo == u[2] + v[2]
    IN  IF lo >= Pow2(30) THEN <<u[1] + v[1] + 1, lo - Pow2(30)>>
        ELSE <<u[1] + v[1], lo>>
USub(u, v) ==
    LET lo == u[2] - v[2]
    IN  IF lo < 0 THEN <<u[1] - v[1] - 1, lo + Pow2(30)>>
        ELSE <<u[1] - v[1], lo>>
UShr(u, k) ==
    IF k = 0 THEN u
    ELSE IF k < 30
         THEN <<u[1] \div Pow2(k),
                (u[2] \div Pow2(k)) + (u[1] % Pow2(k)) * Pow2(30 - k)>>
    ELSE IF k < 60 THEN <<0, u[1] \div Pow2(k - 30)>>
    ELSE UZero
UShl(u, k) ==
    IF k = 0 THEN u
    ELSE IF k < 30
         THEN <<u[1] * Pow2(k) + (u[2] \div Pow2(30 - k)),
                (u[2] % Pow2(30 - k)) * Pow2(k)>>
    ELSE <<u[2] * Pow2(k - 30), 0>>
ULowBits(u, k) ==
    IF k <= 0 THEN FALSE
    ELSE IF k <= 30 THEN u[2] % Pow2(k) # 0
    ELSE IF k < 60 THEN u[2] # 0 \/ u[1] % Pow2(k - 30) # 0
    ELSE u # UZero
UBit(u, i) ==
    IF i < 30 THEN (u[2] \div Pow2(i)) % 2
    ELSE IF i < 60 THEN (u[1] \div Pow2(i - 30)) % 2
    ELSE 0

\* A finite float64 is [neg, exp, man] of value (-1)^neg * man * 2^exp; man
\* is 0 (and exp 0, neg FALSE) or has exactly 53 bits. Subnormals, overflow
\* and infinities do not arise in the model and are left out.
Zero == [neg |-> FALSE, exp |-> 0, man |-> UZero]

\* The float64 nearest to v * 2^e (plus, when sticky, a fraction of 2^e):
\* round to nearest, ties to even.
\* The mantissa m, of 53 bits or, after a carry out of the rounding, 2^53.
Carry(neg, e, m) ==
    IF m[1] = Pow2(23) THEN [neg |-> neg, exp |-> e + 1, man |-> <<Pow2(22), 0>>]
    ELSE [neg |-> neg, exp |-> e, man |-> m]

\* q of 53 bits followed by the bit `half` and, when `rest`, by more below it.
RoundUp(neg, e, q, half, rest) ==
    Carry(neg, e, IF half /\ (rest \/ q[2] % 2 = 1) THEN UAdd(q, UOne) ELSE q)

\* Round for v of n bits.
RoundTo(neg, e, v, sticky, n) ==
    IF n = 0 THEN Zero
    ELSE IF n <= 53
         THEN [neg |-> neg, exp |-> e - (53 - n), man |-> UShl(v, 53 - n)]
    ELSE RoundUp(neg, e + (n - 53), UShr(v, n - 53),
                 UBit(v, n - 54) = 1, sticky \/ ULowBits(v, n - 54))

Round(neg, e, v, sticky) == RoundTo(neg, e, v, sticky, ULen(v))

\* float(n) for 0 <= n < 2^30.
FromInt(n) == Round(FALSE, 0, <<0, n>>, FALSE)

FNeg(a) == IF a.man[1] = 0 THEN a ELSE [a EXCEPT !.neg = ~a.neg]

\* a + b: the operands aligned with three extra bits and a sticky bit.
FAdd(a, b) ==
    IF a.man[1] = 0 THEN b
    ELSE IF b.man[1] = 0 THEN a
    ELSE LET swap == a.exp < b.exp \/ (a.exp = b.exp /\ ULess(a.man, b.man))
             x == IF swap THEN b ELSE a
             y == IF swap THEN a ELSE b
             d == x.exp - y.exp
             A == UShl(x.man, 3)
             Y == UShl(y.man, 3)
             B == UShr(Y, d)
             sticky == ULowBits(Y, d)
         IN  IF x.neg = y.neg THEN Round(x.neg, x.exp - 3, UAdd(A, B), sticky)
             ELSE IF d = 0 /\ x.man = y.man THEN Zero
             ELSE Round(x.neg, x.exp - 3,
                        USub(A, IF sticky THEN UAdd(B, UOne) ELSE B), sticky)

FSub(a, b) == FAdd(a, FNeg(b))

\* The mantissa in four limbs of 14 bits, the lowest first.
Limbs(m) ==
    <<m[2] % 16384,
      (m[2] \div 16384) % 16384,
      (m[2] \div Pow2(28)) + (m[1] % 4096) * 4,
      m[1] \div 4096>>

\* a * b: the 106-bit product of the mantissas, rounded once.
MulLimbs(neg, e, x, y) ==
    LET c0 == x[1] * y[1]
        c1 == x[1] * y[2] + x[2] * y[1] + (c0 \div 16384)
        c2 == x[1] * y[3] + x[2] * y[2] + x[3] * y[1] + (c1 \div 16384)
        c3 == x[1] * y[4] + x[2] * y[3] + x[3] * y[2] + x[4] * y[1] + (c2 \div 16384)
        c4 == x[2] * y[4] + x[3] * y[3] + x[4] * y[2] + (c3 \div 16384)
        c5 == x[3] * y[4] + x[4] * y[3] + (c4 \div 16384)
        c6 == x[4] * y[4] + (c5 \div 16384)
        p3 == c3 % 16384
        p4 == c4 % 16384
        p5 == c5 % 16384
        v  == <<(p5 \div 64) + c6 * 256,
                (p3 \div 16) + p4 * 1024 + (p5 % 64) * Pow2(24)>>
        sticky == c0 % 16384 # 0 \/ c1 % 16384 # 0 \/ c2 % 16384 # 0 \/ p3 % 16 # 0
    IN  Round(neg, e, v, sticky)

FMul(a, b) ==
    IF a.man[1] = 0 \/ b.man[1] = 0 THEN Zero
    ELSE MulLimbs(a.neg # b.neg, a.exp + b.exp + 46, Limbs(a.man), Limbs(b.man))

\* u * q for q < 2^8.
UMulSmall(u, q) ==
    LET p0  == (u[2] % 32768) * q
        p1  == (u[2] \div 32768) * q
        low == p0 + (p1 % 32768) * 32768
    IN  <<u[1] * q + (p1 \div 32768) + (low \div Pow2(30)), low % Pow2(30)>>

\* One step of the long division by d in base 128; s is <<remainder,
\* quotient>>. The digit is estimated from the high parts and corrected.
\* <<remainder, digit>> with the digit raised by one when the remainder
\* still holds d.
DivFix(rq, d) ==
    IF ULess(rq[1], d) THEN rq ELSE <<USub(rq[1], d), rq[2] + 1>>

\* The remainder and the digit of t by d, from the estimate q of the digit.
DivDigit(t, d, q) == DivFix(DivFix(<<USub(t, UMulSmall(d, q)), q>>, d), d)

\* The new remainder, and the digit rq[2] appended to the quotient quo.
DivJoin(rq, quo) == <<rq[1], UAdd(quo, <<0, rq[2]>>)>>

\* The step for the remainder t and the quotient quo, both already shifted
\* by one digit.
DivShifted(t, quo, d) == DivJoin(DivDigit(t, d, t[1] \div (d[1] + 1)), quo)

DivStep(s, d) == DivShifted(UShl(s[1], 7), UShl(s[2], 7), d)

\* n steps from s; s is evaluated before the next step to bound the depth
\* of the evaluation.
RECURSIVE DivRun(_, _, _)
DivRun(s, d, n) ==
    IF n = 0 \/ s = <<>> THEN s ELSE DivRun(DivStep(s, d), d, n - 1)

\* The quotient qr[2] rounded; a remainder qr[1] # 0 is the sticky bit.
DivRound(neg, e, qr) == Round(neg, e, qr[2], qr[1] # UZero)

\* a / b for b # 0: 57 bits of the quotient and a sticky bit, rounded once.
FDiv(a, b) ==
    IF a.man[1] = 0 THEN Zero
    ELSE DivRound(a.neg # b.neg, a.exp - b.exp - 56,
                  DivRun(IF ULess(a.man, b.man) THEN <<a.man, UZero>>
                         ELSE <<USub(a.man, b.man), UOne>>,
                         b.man, 8))

\* |a| < |b|, a < b and a <= b.
MagLess(a, b) ==
    IF a.man[1] = 0 THEN b.man[1] # 0
    ELSE IF b.man[1] = 0 THEN FALSE
    ELSE a.exp < b.exp \/ (a.exp = b.exp /\ ULess(a.man, b.man))
FLess(a, b) ==
    IF a.neg # b.neg THEN a.neg
    ELSE IF a.neg THEN MagLess(b, a) ELSE MagLess(a, b)
FLE(a, b) == ~FLess(b, a)

\* numpy rint of a non-negative float below 2^30: an integer.
Rint(a) ==
    IF a.man[1] = 0 \/ a.exp < -54 THEN 0
    ELSE IF a.exp >= 0 THEN UShl(a.man, a.exp)[2]
    ELSE LET k  == -a.exp
             q  == UShr(a.man, k)
             up == /\ UBit(a.man, k - 1) = 1
                   /\ (ULowBits(a.man, k - 1) \/ q[2] % 2 = 1)
         IN  IF up THEN q[2] + 1 ELSE q[2]

One == FromInt(1)

\* A float64 cell of a Series or DataFrame.
NaN == [isnan |-> TRUE, val |-> Zero]
Float(v) == [isnan |-> FALSE, val |-> v]

\* acc + cells[lo] + cells[lo + step] + ... (indices <= hi), added one after
\* the other from the left; the run is split in halves to bound the depth
\* of the evaluation.
RECURSIVE AddRun(_, _, _, _, _)
AddRun(acc, cells, lo, hi, step) ==
    IF lo > hi THEN acc
    ELSE IF lo + step > hi THEN FAdd(acc, cells[lo])
    ELSE LET half == (((hi - lo) \div step) + 1) \div 2
             left == AddRun(acc, cells, lo, lo + (half - 1) * step, step)
         IN  IF left.exp = left.exp THEN AddRun(left, cells, lo + half * step, hi, step)
             ELSE left

\* The eight accumulators of the unrolled loop, added as a tree.
Tree8(r) ==
    FAdd(FAdd(FAdd(r[1], r[2]), FAdd(r[3], r[4])),
         FAdd(FAdd(r[5], r[6]), FAdd(r[7], r[8])))

\* numpy's pairwise sum (add.reduce of a float64 array) of the n cells from
\* cells[lo] on: a plain loop below 8 cells, eight interleaved accumulators
\* up to 128 cells, two halves above.
RECURSIVE PairwiseSum(_, _, _)
PairwiseSum(cells, lo, n) ==
    IF n < 8 THEN AddRun(Zero, cells, lo, lo + n - 1, 1)
    ELSE IF n <= 128
    THEN LET stop == lo + (n - (n % 8)) - 1
         IN  AddRun(Tree8(List([k \in 1..8 |->
                        AddRun(cells[lo + k - 1], cells, lo + k + 7, stop, 8)])),
                    cells, stop + 1, lo + n - 1, 1)
    ELSE LET n2 == (n \div 2) - ((n \div 2) % 8)
         IN  FAdd(PairwiseSum(cells, lo, n2), PairwiseSum(cells, lo + n2, n - n2))

\* One row of pandas' group_sum (Kahan summation); s is <<sumx, compensation>>.
KahanAdd(sumx, y, t) == <<t, FSub(FSub(t, sumx), y)>>
KahanY(sumx, y) == KahanAdd(sumx, y, FAdd(sumx, y))
KahanStep(s, val) == KahanY(s[1], FSub(val, s[2]))

\* The rows cells[lo..hi] of a group, in order; split in halves as AddRun.
RECURSIVE KahanRun(_, _, _, _)
KahanRun(s, cells, lo, hi) ==
    IF lo > hi THEN s
    ELSE IF lo = hi THEN KahanStep(s, cells[lo])
    ELSE LET mid  == (lo + hi) \div 2
             left == KahanRun(s, cells, lo, mid)
         IN  IF left # <<>> THEN KahanRun(left, cells, mid + 1, hi) ELSE left

\* groupby(...).sum() of one group: its cells summed by group_sum.
GroupSum(cells) == KahanRun(<<Zero, Zero>>, cells, 1, Len(cells))[1]

\* DataFrame.round(3) of a non-negative cell: numpy's round,
\* rint(x * 1000) / 1000.
Round3(x) == FDiv(FromInt(Rint(FMul(x, FromInt(1000)))), FromInt(1000))

(***************************************************************************)
(* Dataset loader (module level of app.py).                                *)
(***************************************************************************)
\* Days since 1970-01-01 of a proleptic Gregorian date.
DaysFromCivil(date) ==
    LET y   == IF date.m <= 2 THEN date.y - 1 ELSE date.y
        era == y \div 400
        yoe == y - era * 400
        mp  == (date.m + 9) % 12
        doy == (153 * mp + 2) \div 5 + date.d - 1
        doe == yoe * 365 + yoe \div 4 - yoe \div 100 + doy
    IN  era * 146097 + doe - 719468

\* pandas' day names, Monday first (dt.weekday = 0 is Monday).
DayNames == <<"Monday", "Tuesday", "Wednesday", "Thursday",
              "Friday", "Saturday", "Sunday">>

\* df["transaction_date"].dt.day_name(); 1970-01-01 was a Thursday.
day_name(date) == DayNames[((DaysFromCivil(date) + 3) % 7) + 1]

\* The code point of the last decimal digit of n ('0' is 48).
Digit(n) == 48 + (n % 10)

\* df["transaction_date"].dt.to_period("M").astype(str): "YYYY-MM" ('-' is 45).
to_period_M_str(date) ==
    << Digit(date.y \div 1000), Digit(date.y \div 100),
       Digit(date.y \div 10),   Digit(date.y),
       45,
       Digit(date.m \div 10),   Digit(date.m) >>

\* pd.to_datetime(transaction_time, format='%H:%M:%S').dt.hour
hour_of(time) == time.hh

\* The float64 cell that read_excel gives for a price written in the
\* workbook as a decimal with two places, here a number of cents: the
\* float64 nearest to cents / 100.
PriceCell(cents) == FDiv(FromInt(cents), FromInt(100))

\* One row of df after lines 8-12; CA is the float64 product int64 * float64.
LoadRow(raw) ==
    [transaction_id   |-> raw.transaction_id,
     transaction_date |-> raw.transaction_date,
     transaction_time |-> raw.transaction_time,
     transaction_qty  |-> raw.transaction_qty,
     unit_price       |-> PriceCell(raw.unit_price),
     store_location   |-> raw.store_location,
     product_detail   |-> raw.product_detail,
     CA               |-> FMul(FromInt(raw.transaction_qty), PriceCell(raw.unit_price)),
     heure            |-> hour_of(raw.transaction_time),
     jour_semaine     |-> day_name(raw.transaction_date),
     mois             |-> to_period_M_str(raw.transaction_date)]

Load(rawrows) == List([i \in 1..Len(rawrows) |-> LoadRow(rawrows[i])])

(***************************************************************************)
(* The workbooks of the model.                                             *)
(***************************************************************************)
Latte    == <<76, 97, 116, 116, 101>>
Muffin   == <<77, 117, 102, 102, 105, 110>>
Tea      == <<84, 101, 97>>
Espresso == <<69, 115, 112, 114, 101, 115, 115, 111>>
\* "Blend 01", "Blend 02", ...
Blend(i) == <<66, 108, 101, 110, 100, 32, Digit(i \div 10), Digit(i)>>

RawRow(tid, date, time, qty, price, store, product) ==
    [transaction_id   |-> tid,
     transaction_date |-> date,
     transaction_time |-> time,
     transaction_qty  |-> qty,
     unit_price       |-> price,
     store_location   |-> store,
     product_detail   |-> product]

Jan02 == [y |-> 2023, m |-> 1, d |-> 2]
Jan03 == [y |-> 2023, m |-> 1, d |-> 3]
Feb01 == [y |-> 2023, m |-> 2, d |-> 1]
Morning   == [hh |-> 8,  mm |-> 15, ss |-> 0]
Noon      == [hh |-> 12, mm |-> 0,  ss |-> 0]
Afternoon == [hh |-> 14, mm |-> 5,  ss |-> 30]

\* The rows a workbook's free part is drawn from: one checkout of three
\* products, two of them with the same revenue, and a second checkout in
\* another store, month, weekday and hour.
RawPool ==
    { RawRow(1, Jan02, Morning,   1, 100, "Astoria",        Latte),
      RawRow(1, Jan02, Morning,   2,  50, "Astoria",        Muffin),
      RawRow(1, Jan02, Morning,   1,  50, "Astoria",        Tea),
      RawRow(2, Feb01, Afternoon, 1, 100, "Hell's Kitchen", Latte) }

RECURSIVE SeqsUpTo(_, _)
SeqsUpTo(S, n) ==
    IF n = 0 THEN {<<>>}
    ELSE LET shorter == SeqsUpTo(S, n - 1)
         IN  shorter \cup {Append(s, x) : s \in {t \in shorter : Len(t) = n - 1}, x \in S}

BulkKinds == {"none", "repeat", "distinct"}

\* The product of the i-th checkout of a "distinct" tail: Latte, then the blends.
TailProduct(i) == IF i = 1 THEN Latte ELSE Blend(i - 1)

\* The tail of a workbook: nothing, many checkouts of one product, or
\* several checkouts of pairwise distinct products.
Bulk(kind) ==
    IF kind = "repeat"
    THEN List([i \in 1..BulkRepeat |->
             RawRow(100 + i, Jan03, Noon, 1, 30, "Astoria", Espresso)])
    ELSE IF kind = "distinct"
    THEN List([i \in 1..BulkDistinct |->
             RawRow(200 + i, Feb01, Noon, 1, IF i % 4 = 0 THEN 120 ELSE 100,
                    "Hell's Kitchen", TailProduct(i))])
    ELSE <<>>

\* The workbooks: up to MaxLines lines of the pool, in any order and with
\* repetitions; or up to MaxLines different lines of the pool followed by a
\* tail.
Heads == SeqsUpTo(RawPool, MaxLines)
TailHeads == {h \in Heads : \A i, j \in 1..Len(h) : i # j => h[i] # h[j]}
Workbooks ==
    {head \o Bulk("none") : head \in Heads}
        \cup {head \o Bulk(kind) : head \in TailHeads, kind \in BulkKinds \ {"none"}}

Column(frame, name) == List([i \in 1..Len(frame) |-> frame[i][name]])

(***************************************************************************)
(* update_dashboard: filter and aggregates (lines 54-83).                  *)
(***************************************************************************)
\* Keep with | in place of &.
KeepEither(row, stores, months) ==
    row.store_location \in stores \/ row.mois \in months

\* df['store_location'].isin(store_selection) & df['mois'].isin(mois_selection)
Keep(row, stores, months) ==
    row.store_location \in stores /\ row.mois \in months

\* df[mask]: the rows of the frame whose mask is True, in the frame's order.
Filter(frame, stores, months) ==
    SelectSeq(frame, LAMBDA row : Keep(row, stores, months))

\* Series.sum() of a float64 column without NaN: numpy's sum of the values.
FloatSum(values) == PairwiseSum(values, 1, Len(values))

\* Series.sum() of float cells (nansum): the NaN cells are replaced by 0,
\* then the values are summed; the empty sum is 0.
SeriesSum(cells) ==
    FloatSum(List([i \in 1..Len(cells) |-> IF cells[i].isnan THEN Zero ELSE cells[i].val]))

\* Series.count() in place of Series.nunique().
NCount(values) == Len(values)

\* Series.nunique()
NUnique(values) == Cardinality(Range(values))

\* total_ca / nb_transac if nb_transac > 0 else 0
TicketMoyen(ca, n) == IF n > 0 THEN FDiv(ca, FromInt(n)) ELSE Zero

\* frame.groupby(key)["CA"].sum() for the group labels `keys` (sorted by the
\* caller, as groupby sorts its keys): the rows [key, CA] of the Series.
GroupBySum(frame, key, keys) ==
    List([i \in 1..Len(keys) |->
        [key |-> keys[i],
         CA  |-> Float(GroupSum(Column(SelectSeq(frame, LAMBDA row : row[key] = keys[i]),
                                       "CA")))]])

\* groupby("mois")["CA"].sum().reset_index()
CaMois(frame) ==
    GroupBySum(frame, "mois", SortStrs(Range(Column(frame, "mois"))))

jour_order == <<"Monday", "Tuesday", "Wednesday", "Thursday",
                "Friday", "Saturday", "Sunday">>

\* The day names in str order, the order groupby gives its keys.
SortedDayNames == <<"Friday", "Monday", "Saturday", "Sunday",
                    "Thursday", "Tuesday", "Wednesday">>

\* The day names present in the frame, sorted.
DayKeys(frame) ==
    SelectSeq(SortedDayNames, LAMBDA d : d \in Range(Column(frame, "jour_semaine")))

\* Series.reindex(labels): the cell of each label, NaN for a label the
\* Series does not have.
Reindex(series, labels) ==
    List([i \in 1..Len(labels) |->
        [key |-> labels[i],
         CA  |-> IF \E j \in 1..Len(series) : series[j].key = labels[i]
                 THEN series[CHOOSE j \in 1..Len(series) : series[j].key = labels[i]].CA
                 ELSE NaN]])

\* groupby("jour_semaine")["CA"].sum().reindex(jour_order).reset_index()
CaJour(frame) ==
    Reindex(GroupBySum(frame, "jour_semaine", DayKeys(frame)), jour_order)

\* pivot_table(index="jour_semaine", columns="heure", values="CA", aggfunc="sum"):
\* one row per day present, one column per hour present, NaN where no line
\* has that day and hour.
PivotTable(frame) ==
    LET days  == DayKeys(frame)
        hours == SortInts(Range(Column(frame, "heure")))
        cell(d, h) ==
            LET part == SelectSeq(frame, LAMBDA row : row.jour_semaine = d /\ row.heure = h)
            IN  IF part = <<>> THEN NaN ELSE Float(GroupSum(Column(part, "CA")))
    IN  [index   |-> days,
         columns |-> hours,
         data    |-> List([i \in 1..Len(days) |-> List([j \in 1..Len(hours) |-> cell(days[i], hours[j])])])]

\* DataFrame.fillna(0)
Fillna0(p) ==
    [p EXCEPT !.data = List([i \in 1..Len(p.index) |-> List([j \in 1..Len(p.columns) |->
                           IF p.data[i][j].isnan THEN Float(Zero) ELSE p.data[i][j]])])]

\* DataFrame.reindex(labels): the row of each label, a row of NaN for a
\* label the frame does not have.
ReindexRows(p, labels) ==
    [index   |-> labels,
     columns |-> p.columns,
     data    |-> List([i \in 1..Len(labels) |->
                    IF \E k \in 1..Len(p.index) : p.index[k] = labels[i]
                    THEN p.data[CHOOSE k \in 1..Len(p.index) : p.index[k] = labels[i]]
                    ELSE List([j \in 1..Len(p.columns) |-> NaN])])]

\* pivot_table(...).fillna(0).reindex(jour_order)
Pivot(frame) == ReindexRows(Fillna0(PivotTable(frame)), jour_order)

\* The series without its cell i.
Drop(series, i) ==
    List([j \in 1..(Len(series) - 1) |-> IF j < i THEN series[j] ELSE series[j + 1]])

\* The fast method of nlargest, keep="first" (kth_smallest, then a
\* mergesort argsort of the candidates): the n largest cells in descending
\* order, equal cells in the order of the Series.
RECURSIVE NLargestFirst(_, _)
NLargestFirst(series, n) ==
    IF n = 0 \/ series = <<>> THEN <<>>
    ELSE LET i == CHOOSE i \in 1..Len(series) :
                     /\ \A j \in 1..Len(series) : FLE(series[j].CA.val, series[i].CA.val)
                     /\ \A j \in 1..(i - 1) : FLess(series[j].CA.val, series[i].CA.val)
         IN  <<series[i]>> \o NLargestFirst(Drop(series, i), n - 1)

\* Series.sort_values(ascending=False), kind="quicksort": the cells in
\* descending order. numpy's quicksort is not stable, and the place of equal
\* cells depends on the numpy build (insertion sort of a short array, or a
\* SIMD sorting network): every order of equal cells is a possible result.
RECURSIVE SortValuesDescending(_)
SortValuesDescending(series) ==
    IF series = <<>> THEN {<<>>}
    ELSE UNION {{<<series[i]>> \o rest : rest \in SortValuesDescending(Drop(series, i))} :
                   i \in {i \in 1..Len(series) :
                            \A j \in 1..Len(series) :
                                FLE(series[j].CA.val, series[i].CA.val)}}

\* head(n): the first n cells, all of them when there are fewer.
HeadRows(series, n) == SubSeq(series, 1, IF n < Len(series) THEN n ELSE Len(series))

\* Series.nlargest(n) for n > 0: the results it can return. With
\* n >= len(series) it returns sort_values(ascending=False).head(n), else
\* the result of the fast method.
NLargest(series, n) ==
    IF n >= Len(series)
    THEN {HeadRows(sorted, n) : sorted \in SortValuesDescending(series)}
    ELSE {NLargestFirst(series, n)}

\* groupby("product_detail")["CA"].sum().nlargest(10).reset_index(): the
\* frames it can return.
Top(frame) ==
    NLargest(GroupBySum(frame, "product_detail",
                        SortStrs(Range(Column(frame, "product_detail")))), 10)

(***************************************************************************)
(* update_dashboard: market-basket analysis (lines 87-96).                 *)
(***************************************************************************)
RECURSIVE Concat(_)
Concat(ss) == IF ss = <<>> THEN <<>> ELSE Head(ss) \o Concat(Tail(ss))

\* groupby("transaction_id")["product_detail"].apply(list): one list of
\* products per transaction_id, the ids ascending.
Transactions(frame) ==
    LET ids == SortInts(Range(Column(frame, "transaction_id")))
    IN  List([i \in 1..Len(ids) |->
            Column(SelectSeq(frame, LAMBDA row : row.transaction_id = ids[i]),
                   "product_detail")])

\* TransactionEncoder().fit(t).transform(t) as a DataFrame: the columns are
\* the sorted distinct items, a cell is True iff the transaction holds the item.
Basket(transactions) ==
    LET cols == SortStrs(UNION {Range(transactions[i]) : i \in 1..Len(transactions)})
    IN  [columns |-> cols,
         values  |-> List([i \in 1..Len(transactions) |->
                        List([c \in 1..Len(cols) |-> cols[c] \in Range(transactions[i])])])]

\* min_support = 0.02
min_support == FDiv(FromInt(2), FromInt(100))
\* metric="lift", min_threshold = 1.2
min_threshold == FDiv(FromInt(12), FromInt(10))

\* Support with np.any in place of np.all.
SupportAny(X, combo) ==
    FDiv(FromInt(Cardinality({i \in 1..Len(X) : \E k \in 1..Len(combo) : X[i][combo[k]]})),
         FromInt(Len(X)))

\* The support of a combination of column indices: the fraction of the rows
\* of X in which all its columns are True (np.all(X[:, combin]), summed / rows),
\* a float64 division.
Support(X, combo) ==
    FDiv(FromInt(Cardinality({i \in 1..Len(X) : \A k \in 1..Len(combo) : X[i][combo[k]]})),
         FromInt(Len(X)))

\* The candidate combinations of one level, each with its support.
WithSupport(X, combin) ==
    List([i \in 1..Len(combin) |-> [combo |-> combin[i], support |-> Support(X, combin[i])]])

\* support >= min_support
IsFrequent(c) == FLE(min_support, c.support)

\* mlxtend's generate_new_combinations: every combination of the previous
\* level, extended by each item of that level greater than its last item.
GenerateNewCombinations(old) ==
    LET items == SortInts(UNION {Range(old[i]) : i \in 1..Len(old)})
        ext(c) == LET valid == SelectSeq(items, LAMBDA x : x > c[Len(c)])
                  IN  List([j \in 1..Len(valid) |-> Append(c, valid[j])])
    IN  Concat(List([i \in 1..Len(old) |-> ext(old[i])]))

\* One turn of apriori's loop: the combinations generated from the level
\* `prev` that are frequent, with their supports.
NextLevel(X, prev) ==
    SelectSeq(WithSupport(X, GenerateNewCombinations(
                  List([i \in 1..Len(prev) |-> prev[i].combo]))),
              IsFrequent)

\* apriori's loop: the frequent combinations of `level` and of the levels
\* above it; the loop ends at the first level without a frequent combination.
RECURSIVE AprioriLevels(_, _)
AprioriLevels(X, level) ==
    IF level = <<>> THEN <<>>
    ELSE level \o AprioriLevels(X, NextLevel(X, level))

\* use_colnames=True: the column indices of each combination mapped to the
\* column names, as a set.
ColNames(columns, all) ==
    List([i \in 1..Len(all) |->
        [support  |-> all[i].support,
         itemsets |-> {columns[all[i].combo[k]] : k \in 1..Len(all[i].combo)}]])

\* apriori(basket, min_support=0.02, use_colnames=True): the rows
\* [support, itemsets], level by level.
Apriori(basket) ==
    ColNames(basket.columns,
             AprioriLevels(basket.values,
                           SelectSeq(WithSupport(basket.values,
                                         List([c \in 1..Len(basket.columns) |-> <<c>>])),
                                     IsFrequent)))

\* itertools.combinations(s, r): the r-element subsequences of s, in
\* lexicographic order of their positions.
RECURSIVE Combinations(_, _)
Combinations(s, r) ==
    IF r = 0 THEN << <<>> >>
    ELSE IF Len(s) < r THEN <<>>
    ELSE LET with == Combinations(Tail(s), r - 1)
         IN  List([i \in 1..Len(with) |-> <<Head(s)>> \o with[i]])
             \o Combinations(Tail(s), r)

\* frequent_items_dict[itemset]
SupportOf(freq, itemset) ==
    freq[CHOOSE i \in 1..Len(freq) : freq[i].itemsets = itemset].support

\* The rule antecedent -> (k - antecedent) with mlxtend's metrics:
\* confidence = sAC / sA, lift = confidence / sC, in float64.
Rule(freq, k, antecedent) ==
    LET consequent == k \ antecedent
        sAC == SupportOf(freq, k)
        sA  == SupportOf(freq, antecedent)
        sC  == SupportOf(freq, consequent)
        confidence == FDiv(sAC, sA)
    IN  [antecedents |-> antecedent,
         consequents |-> consequent,
         support     |-> sAC,
         confidence  |-> confidence,
         lift        |-> FDiv(confidence, sC)]

\* The non-empty proper subsets of an itemset.
Antecedents(k) == (SUBSET k) \ {{}, k}

\* RulesOfItemset with min_threshold = 1 in place of 1.2.
RulesOfItemsetLift1(freq, k) ==
    {r \in {Rule(freq, k, a) : a \in Antecedents(k)} : FLE(One, r.lift)}

\* The rules that association_rules appends for the frequent itemset k:
\* those of its splits whose lift is >= min_threshold.
RulesOfItemset(freq, k) ==
    {r \in {Rule(freq, k, a) : a \in Antecedents(k)} : FLE(min_threshold, r.lift)}

\* The rules of one itemset in the order of the loops
\* "for idx in range(len(k) - 1, 0, -1): for c in combinations(k, r=idx)",
\* k iterated in the order `iter`.
InLoopOrder(kept, iter) ==
    LET n     == Len(iter)
        byIdx == List([d \in 1..(n - 1) |-> Combinations(iter, n - d)])
        hits  == SelectSeq(Concat(byIdx),
                           LAMBDA c : \E r \in kept : r.antecedents = Range(c))
    IN  List([i \in 1..Len(hits) |-> CHOOSE r \in kept : r.antecedents = Range(hits[i])])

\* The orders in which a frozenset of str can iterate: the order follows
\* the str hashes, which change from one interpreter process to the next.
IterOrders(S) ==
    {o \in [1..Cardinality(S) -> S] : \A i, j \in 1..Cardinality(S) : i # j => o[i] # o[j]}

\* association_rules(frequent, metric="lift", min_threshold=1.2) for a
\* non-empty `freq`: every list of rules it can return, from row i on.
RECURSIVE AssociationRules(_, _)
AssociationRules(freq, i) ==
    IF i > Len(freq) THEN {<<>>}
    ELSE LET k     == freq[i].itemsets
             tails == AssociationRules(freq, i + 1)
         IN  IF Cardinality(k) < 2 THEN tails
             ELSE LET kept  == RulesOfItemset(freq, k)
                      heads == {InLoopOrder(kept, o) : o \in IterOrders(k)}
                  IN  {h \o t : h \in heads, t \in tails}

\* rules[["produits", "support", "confidence", "lift"]].round(3).head(10).
\* The text of "produits" joins the antecedents and the consequents; the
\* row keeps the two sets instead.
Table(rls) ==
    List([i \in 1..(IF Len(rls) < 10 THEN Len(rls) ELSE 10) |->
        [produits   |-> [antecedents |-> rls[i].antecedents,
                         consequents |-> rls[i].consequents],
         support    |-> Round3(rls[i].support),
         confidence |-> Round3(rls[i].confidence),
         lift       |-> Round3(rls[i].lift)]])

(***************************************************************************)
(* The state machine.                                                      *)
(***************************************************************************)
\* The value of a local variable that has not been assigned.
Unset == <<>>

\* df['store_location'].unique() and df['mois'].unique(): the options and
\* the initial value of the two dropdowns.
StoreOptions == Range(Unique(Column(df, "store_location")))
MoisOptions  == Range(Unique(Column(df, "mois")))

Init ==
    /\ df \in {Load(w) : w \in Workbooks}
    /\ store_selection = StoreOptions
    /\ mois_selection = MoisOptions
    /\ pc = "start"
    /\ df_filtered = Unset
    /\ total_ca = Zero
    /\ nb_transac = 0
    /\ ticket_moyen = Zero
    /\ total_qty = 0
    /\ ca_mois = Unset
    /\ ca_jour = Unset
    /\ pivot = Unset
    /\ top = Unset
    /\ frequent = Unset
    /\ rules = Unset
    /\ table = Unset

\* One call update_dashboard(stores, months). association_rules raises
\* ValueError when the frame of frequent itemsets is empty; the call then
\* ends without assigning rules or the table. top and rules are one of the
\* results that nlargest and association_rules can return.
UpdateDashboard(stores, months) ==
    LET filtered == Filter(df, stores, months)
        ca       == FloatSum(Column(filtered, "CA"))
        nb       == NUnique(Column(filtered, "transaction_id"))
        basket   == Basket(Transactions(filtered))
        freq     == Apriori(basket)
    IN  /\ df_filtered' = filtered
        /\ total_ca' = ca
        /\ nb_transac' = nb
        /\ ticket_moyen' = TicketMoyen(ca, nb)
        /\ total_qty' = SumSeq(Column(filtered, "transaction_qty"))
        /\ ca_mois' = CaMois(filtered)
        /\ ca_jour' = CaJour(filtered)
        /\ pivot' = Pivot(filtered)
        /\ top' \in Top(filtered)
        /\ frequent' = freq
        /\ IF freq = <<>>
           THEN /\ pc' = "raised"
                /\ rules' = Unset
                /\ table' = Unset
           ELSE /\ pc' = "returned"
                /\ \E rls \in AssociationRules(freq, 1) :
                      /\ rules' = rls
                      /\ table' = Table(rls)

\* The browser loads the page: the callback runs with the dropdowns' initial
\* values.
PageLoad ==
    /\ pc = "start"
    /\ UpdateDashboard(store_selection, mois_selection)
    /\ UNCHANGED <<df, store_selection, mois_selection>>

\* The user changes the value of the store dropdown.
ChangeStoreFilter ==
    /\ pc # "start"
    /\ \E value \in SUBSET StoreOptions :
        /\ value # store_selection
        /\ store_selection' = value
        /\ UpdateDashboard(value, mois_selection)
    /\ UNCHANGED <<df, mois_selection>>

\* The user changes the value of the month dropdown.
ChangeMoisFilter ==
    /\ pc # "start"
    /\ \E value \in SUBSET MoisOptions :
        /\ value # mois_selection
        /\ mois_selection' = value
        /\ UpdateDashboard(store_selection, value)
    /\ UNCHANGED <<df, store_selection>>

Next == PageLoad \/ ChangeStoreFilter \/ ChangeMoisFilter

Spec == Init /\ [][Next]_vars

(***************************************************************************)
(* Properties.                                                             *)
(*                                                                         *)
(* The properties read the frame of the latest call (pc # "start") and     *)
(* recompute what they need from df, the two selections and df_filtered.   *)
(***************************************************************************)
Called == pc # "start"

\* The positions of df whose row the selection keeps.
KeptPositions ==
    {i \in 1..Len(df) : /\ df[i].store_location \in store_selection
                        /\ df[i].mois \in mois_selection}

\* The revenue of the rows of df_filtered that satisfy P, 0 when there is
\* none: their CA summed as a group.
RevenueWhere(P(_)) == GroupSum(Column(SelectSeq(df_filtered, P), "CA"))

Products     == {df_filtered[i].product_detail : i \in 1..Len(df_filtered)}
TransactionIds == {df_filtered[i].transaction_id : i \in 1..Len(df_filtered)}

\* The baskets of df_filtered: the pairs <<transaction_id, set of products>>.
Baskets ==
    {<<t, {df_filtered[i].product_detail :
              i \in {j \in 1..Len(df_filtered) : df_filtered[j].transaction_id = t}}>> :
        t \in TransactionIds}

\* The number of baskets of B that hold every product of S.
CountIn(B, S) == Cardinality({b \in B : S \subseteq b[2]})

\* C1: the filtered frame holds exactly the rows of df whose store_location
\* is in the selected stores and whose mois is in the selected months,
\* unaltered and in the order of df.
C1_FilterExact ==
    Called =>
        /\ Len(df_filtered) = Cardinality(KeptPositions)
        /\ \A i \in KeptPositions :
              df_filtered[Cardinality({k \in KeptPositions : k <= i})] = df[i]

\* A call kept a row that comes after a dropped row, and dropped rows on
\* the store and on the month alone.
C1_Witness ==
    /\ Called
    /\ \E i, j \in 1..Len(df) : i < j /\ i \notin KeptPositions /\ j \in KeptPositions
    /\ \E i \in 1..Len(df) :
          df[i].store_location \in store_selection /\ df[i].mois \notin mois_selection

\* C2 as stated: the sum of the weekday series, the sum of the monthly
\* series and total_ca are equal.
C2_RevenueConserved ==
    Called =>
        /\ SeriesSum(Column(ca_jour, "CA")) = total_ca
        /\ SeriesSum(Column(ca_mois, "CA")) = total_ca

\* C3 as stated: the weekday series has the 7 days Monday..Sunday in order,
\* each with its revenue, and a day without a row has revenue 0.
C3_WeekdaySeriesZeroFilled ==
    Called =>
        /\ Len(ca_jour) = 7
        /\ \A i \in 1..7 :
              /\ ca_jour[i].key = jour_order[i]
              /\ ca_jour[i].CA =
                    Float(RevenueWhere(LAMBDA row : row.jour_semaine = jour_order[i]))

\* C4: every reported itemset of two or more products has each of its
\* subsets with one product less reported too, with a support that is at
\* least min_support and at least the support of the itemset.
C4_AntiMonotone ==
    Called =>
        \A i \in 1..Len(frequent) :
            Cardinality(frequent[i].itemsets) >= 2 =>
                \A x \in frequent[i].itemsets :
                    \E j \in 1..Len(frequent) :
                        /\ frequent[j].itemsets = frequent[i].itemsets \ {x}
                        /\ FLE(min_support, frequent[j].support)
                        /\ FLE(frequent[i].support, frequent[j].support)

\* A call reported an itemset of three products whose support is exactly
\* min_support, next to a product with a larger support.
C4_Witness ==
    /\ Called
    /\ \E i, j \in 1..Len(frequent) :
          /\ Cardinality(frequent[i].itemsets) = 3
          /\ frequent[i].support = min_support
          /\ FLess(frequent[i].support, frequent[j].support)

\* C5: every rule has non-empty disjoint antecedents and consequents whose
\* union is a reported itemset with support >= min_support; its support is
\* that of the union in the baskets of df_filtered, its confidence is
\* support(union) / support(antecedents) and its lift is
\* confidence / support(consequents), with 0 < confidence <= 1 and
\* lift >= 1.2; the table shows the first rules, rounded, within the same
\* bounds.
C5_RulesSound ==
    Called =>
        LET B == Baskets
            n == Cardinality(B)
        IN  /\ \A i \in 1..Len(rules) :
                  LET r   == rules[i]
                      sAC == FDiv(FromInt(CountIn(B, r.antecedents \cup r.consequents)),
                                  FromInt(n))
                      sA  == FDiv(FromInt(CountIn(B, r.antecedents)), FromInt(n))
                      sC  == FDiv(FromInt(CountIn(B, r.consequents)), FromInt(n))
                  IN  /\ r.antecedents # {} /\ r.consequents # {}
                      /\ r.antecedents \cap r.consequents = {}
                      /\ \E j \in 1..Len(frequent) :
                            frequent[j].itemsets = r.antecedents \cup r.consequents
                      /\ FLE(min_support, sAC)
                      /\ r.support = sAC
                      /\ r.confidence = FDiv(sAC, sA)
                      /\ r.lift = FDiv(r.confidence, sC)
                      /\ FLess(Zero, r.confidence) /\ FLE(r.confidence, One)
                      /\ FLE(min_threshold, r.lift)
            /\ \A i \in 1..Len(table) :
                  /\ i <= Len(rules)
                  /\ table[i].produits.antecedents = rules[i].antecedents
                  /\ table[i].produits.consequents = rules[i].consequents
                  /\ FLess(Zero, table[i].confidence) /\ FLE(table[i].confidence, One)
                  /\ FLE(min_threshold, table[i].lift)

\* A call returned more rules than the table shows, one of the rules shown
\* with a confidence below 1 and the rules not all of the same lift.
C5_Witness ==
    /\ pc = "returned"
    /\ Len(rules) > Len(table)
    /\ \E i \in 1..Len(table) : FLess(rules[i].confidence, One)
    /\ \E i, j \in 1..Len(rules) : FLess(rules[i].lift, rules[j].lift)

\* C6 as stated: the rows of the table are in descending order of lift,
\* equal lifts in descending order of confidence and then of support, and
\* no rule left out of the table has a higher lift than a rule in it.
C6_TableIsTopByLift ==
    pc = "returned" =>
        /\ \A i, j \in 1..Len(table) :
              i < j =>
                  \/ FLess(rules[j].lift, rules[i].lift)
                  \/ /\ rules[i].lift = rules[j].lift
                     /\ \/ FLess(rules[j].confidence, rules[i].confidence)
                        \/ /\ rules[i].confidence = rules[j].confidence
                           /\ FLE(rules[j].support, rules[i].support)
        /\ \A k \in (Len(table) + 1)..Len(rules) : \A i \in 1..Len(table) :
              FLE(rules[k].lift, rules[i].lift)

\* The position in df_filtered of the first row of a product.
FirstRow(p) ==
    CHOOSE i \in 1..Len(df_filtered) :
        /\ df_filtered[i].product_detail = p
        /\ \A j \in 1..(i - 1) : df_filtered[j].product_detail # p

\* The products of df_filtered, each with its revenue.
RevenueRows ==
    {[key |-> p, CA |-> Float(RevenueWhere(LAMBDA row : row.product_detail = p))] :
        p \in Products}

\* top holds min(10, number of products) of the products with their
\* revenue, and Before(r, q) holds from each entry to every later entry and
\* to every product left out.
TopRankedBy(Before(_, _)) ==
    LET rows == RevenueRows
    IN  /\ Len(top) = (IF Cardinality(rows) < 10 THEN Cardinality(rows) ELSE 10)
        /\ \A i \in 1..Len(top) :
              /\ top[i] \in rows
              /\ \A j \in (i + 1)..Len(top) : Before(top[i], top[j])
              /\ \A q \in rows \ Range(top) : Before(top[i], q)

\* C7 as stated: descending revenue, equal revenues in the order of the
\* products' first rows.
C7_TopTiesByFirstRow ==
    Called =>
        TopRankedBy(LAMBDA r, q :
            \/ FLess(q.CA.val, r.CA.val)
            \/ r.CA = q.CA /\ FirstRow(r.key) < FirstRow(q.key))

\* C8 as stated: a call whose selection is empty or matches no row returns,
\* with all four KPIs 0, no product, no month and no rule.
C8_EmptySelectionReturns ==
    (Called /\ KeptPositions = {}) =>
        /\ pc = "returned"
        /\ total_ca = Zero /\ nb_transac = 0 /\ total_qty = 0
        /\ ticket_moyen = Zero
        /\ top = <<>> /\ ca_mois = <<>> /\ table = <<>>

\* C9: ticket_moyen is total_ca / the number of distinct transaction ids
\* (one float64 division) when there is one, and 0 when there is none.
C9_AverageTicket ==
    Called =>
        LET n == Cardinality(TransactionIds)
        IN  /\ nb_transac = n
            /\ n > 0 => ticket_moyen = FDiv(total_ca, FromInt(n))
            /\ n = 0 => ticket_moyen = Zero

\* A call on a subset with revenue and fewer transactions than rows, the
\* quotient not a whole number.
C9_Witness ==
    /\ Called
    /\ 1 < nb_transac /\ nb_transac < Len(df_filtered)
    /\ FLess(Zero, total_ca)
    /\ FromInt(Rint(ticket_moyen)) # ticket_moyen

\* C10 as stated: the heatmap has the 7 days Monday..Sunday as rows and
\* the 24 hours 0..23 as columns, each cell the revenue of the rows of that
\* day and hour, 0 where there is none.
C10_HeatmapFull ==
    Called =>
        /\ pivot.index = jour_order
        /\ pivot.columns = [h \in 1..24 |-> h - 1]
        /\ \A i \in 1..7 : \A h \in 1..24 :
              pivot.data[i][h] =
                  Float(RevenueWhere(LAMBDA row : /\ row.jour_semaine = jour_order[i]
                                                   /\ row.heure = h - 1))

====
